---- MODULE Spec2Model ----
(***************************************************************************)
(* Shape-, value- and state-level model of core/kan/fasterkan_layers.py:   *)
(* FasterKANLayer, FasterKAN, BasicResBlock, SEBlock,                      *)
(* DepthwiseSeparableConv, SelfAttention, EnhancedFeatureExtractor and     *)
(* FasterKANvolver.                                                        *)
(*                                                                         *)
(* A tensor is a record [shape, val, err, rank]:                           *)
(*   shape  the sizes of its axes (a sequence of positive integers);       *)
(*   val    what it holds, as a postfix term over the call's input: a      *)
(*          sequence of tokens <<op, owner, a, b>>;                        *)
(*   err    "" for a live tensor, otherwise the exception in flight        *)
(*          ("ValueError", "RuntimeError"): every operation passes an      *)
(*          exception through untouched;                                   *)
(*   rank   the rank an error message names, -1 when it names none.        *)
(***************************************************************************)
EXTENDS Integers, Sequences, FiniteSets, TLC

\* ---------------------------------------------------------------- bounds
\* longest layers_hidden list handed to FasterKAN
MaxLayers == 3
\* largest batch / sequence axis of an input
MaxAxis == 2
\* highest rank of a KAN input
MaxRank == 4
\* training-mode forward passes per constructed module
MaxTrain == 2
\* optimizer steps per constructed module
MaxOptim == 1

\* feature widths a KAN layer is built with and fed
FeatureDims == {4, 8, 16}
\* layers_hidden lists handed to FasterKANvolver
VolverLists == {<<>>, <<10>>, <<32, 10>>, <<10, 32>>, <<32, 32, 10>>}
\* hidden_dim / input_channels / image sizes the extractor is built with and fed
HiddenDims == {8, 64}
ImageChannels == {1, 3}
ImageSizes == {<<4, 4>>, <<8, 9>>, <<9, 32>>, <<32, 32>>}
\* channel counts, strides and sizes for stand-alone blocks
BlockChannels == {4, 8, 512}
BlockStrides == {1, 2}
BlockSizes == {<<1, 1>>, <<2, 3>>, <<7, 7>>, <<14, 14>>}
BlockBatches == (1..MaxAxis) \cup {4}

\* ---------------------------------------------------------------- tensors
Tensor(shape, val) == [shape |-> shape, val |-> val, err |-> "", rank |-> -1]

Raise(x, err, rank) == [shape |-> x.shape, val |-> x.val, err |-> err, rank |-> rank]

Ok(x) == x.err = ""

Dim(x) == Len(x.shape)

RECURSIVE Numel(_)
Numel(shape) == IF shape = <<>> THEN 1 ELSE Head(shape) * Numel(Tail(shape))

\* one more token at the end of a postfix term
Tok(op, owner, a, b) == <<op, owner, a, b>>

Apply(x, shape, op, owner, a, b) == Tensor(shape, Append(x.val, Tok(op, owner, a, b)))

\* the call's input: the leaf of every term
Input(shape) == Tensor(shape, <<Tok("input", "", 0, 0)>>)

Front(s) == SubSeq(s, 1, Len(s) - 1)

Last(s) == s[Len(s)]

\* Tensor.view(dims) with at most one -1: same elements, new axes
View(x, dims) ==
  IF ~Ok(x) THEN x
  ELSE LET known == Numel([i \in 1..Len(dims) |-> IF dims[i] = -1 THEN 1 ELSE dims[i]])
           holes == {i \in 1..Len(dims) : dims[i] = -1}
       IN IF holes = {}
          THEN IF known = Numel(x.shape) THEN Tensor(dims, x.val)
               ELSE Raise(x, "RuntimeError", -1)
          ELSE IF Cardinality(holes) = 1 /\ known > 0 /\ Numel(x.shape) % known = 0
               THEN Tensor([i \in 1..Len(dims) |->
                              IF dims[i] = -1 THEN Numel(x.shape) \div known ELSE dims[i]],
                           x.val)
               ELSE Raise(x, "RuntimeError", -1)

\* Tensor.unsqueeze(0)
Unsqueeze0(x) == IF ~Ok(x) THEN x ELSE Tensor(<<1>> \o x.shape, x.val)

\* (mutant) Tensor.squeeze(): drops every axis of size 1
Squeeze0_every(x) ==
  IF ~Ok(x) THEN x
  ELSE Tensor(SelectSeq(x.shape, LAMBDA n : n # 1), x.val)

\* Tensor.squeeze(0): drops axis 0 only when its size is 1
Squeeze0(x) ==
  IF ~Ok(x) THEN x
  ELSE IF Dim(x) > 0 /\ x.shape[1] = 1 THEN Tensor(Tail(x.shape), x.val) ELSE x

\* ---------------------------------------------------------- FasterKANLayer
\* nn.LayerNorm(input_dim): normalizes the last axis, which must be input_dim
LayerNorm(layer, x) ==
  IF ~Ok(x) THEN x
  ELSE IF Dim(x) >= 1 /\ Last(x.shape) = layer.layernorm
       THEN Apply(x, x.shape, "layernorm", "layers", layer.name, 0)
       ELSE Raise(x, "RuntimeError", -1)

\* ReflectionalSwitchFunction.forward: one response per grid point and scalar
ReflectionalSwitchFunction(layer, x) ==
  IF ~Ok(x) THEN x
  ELSE Apply(x, Append(x.shape, layer.rbf.num_grids), "rbf", "layers", layer.name, 0)

\* SplineLinear.forward: a linear map of the last axis
SplineLinear(layer, x) ==
  IF ~Ok(x) THEN x
  ELSE IF Dim(x) >= 1 /\ Last(x.shape) = layer.spline_linear.in_features
       THEN Apply(x, Append(Front(x.shape), layer.spline_linear.out_features),
                  "spline_linear", "layers", layer.name, 0)
       ELSE Raise(x, "RuntimeError", -1)

\* FasterKANLayer.__init__; name is the layer's key in its ModuleList
FasterKANLayer(name, input_dim, output_dim, num_grids, kwargs) ==
  [name          |-> name,
   layernorm     |-> input_dim,
   rbf           |-> [num_grids |-> num_grids, kwargs |-> kwargs],
   spline_linear |-> [in_features |-> input_dim * num_grids, out_features |-> output_dim]]

\* the width a layer accepts (its LayerNorm) and the width it produces (its projection)
InputDim(layer) == layer.layernorm

OutputDim(layer) == layer.spline_linear.out_features

\* the rank test of FasterKANLayer.forward: promote rank 2, keep rank 3, reject the rest
PromoteRank(x) ==
  IF ~Ok(x) THEN x
  ELSE IF Dim(x) = 2 THEN Unsqueeze0(x)
  ELSE IF Dim(x) = 3 THEN x
  ELSE Raise(x, "ValueError", Dim(x))

\* FasterKANLayer.forward
FasterKANLayer_forward(layer, x0) ==
  LET x1 == LayerNorm(layer, x0)
      squeeze_output == Ok(x1) /\ Dim(x1) = 2
      x == PromoteRank(x1)
  IN IF ~Ok(x) THEN x
     ELSE LET batch_size == x.shape[1]
              seq_len == x.shape[2]
              spline_basis == View(ReflectionalSwitchFunction(layer, x),
                                   <<batch_size * seq_len, -1>>)
              output == View(SplineLinear(layer, spline_basis), <<batch_size, seq_len, -1>>)
          IN IF squeeze_output THEN Squeeze0(output) ELSE output

\* ---------------------------------------------------------------- FasterKAN
ButLast(s) == IF s = <<>> THEN <<>> ELSE Front(s)

Rest(s) == IF s = <<>> THEN <<>> ELSE Tail(s)

\* zip(a, b): pairs up to the shorter list
Zip(a, b) ==
  LET n == IF Len(a) < Len(b) THEN Len(a) ELSE Len(b)
  IN [i \in 1..n |-> <<a[i], b[i]>>]

\* the keyword arguments FasterKAN.__init__ hands to every FasterKANLayer
\* (floats in tenths)
StackKwargs(gmin, gmax, exponent, inv_den, train_grid, train_inv_den, base_act, scale) ==
  [grid_min |-> gmin, grid_max |-> gmax, exponent |-> exponent,
   inv_denominator |-> inv_den, train_grid |-> train_grid,
   train_inv_denominator |-> train_inv_den,
   base_activation |-> base_act,
   spline_weight_init_scale |-> scale]

\* the keyword arguments FasterKANvolver.__init__ hands to every FasterKANLayer
VolverKwargs(gmin, gmax, exponent, inv_den, train_grid, train_inv_den, scale) ==
  [grid_min |-> gmin, grid_max |-> gmax, exponent |-> exponent,
   inv_denominator |-> inv_den, train_grid |-> train_grid,
   train_inv_denominator |-> train_inv_den,
   spline_weight_init_scale |-> scale]

\* (mutant) every layer built with out_dim = in_dim
FasterKAN_init_square(layers_hidden, num_grids, kwargs) ==
  LET pairs == Zip(ButLast(layers_hidden), Rest(layers_hidden))
  IN [i \in 1..Len(pairs) |->
        FasterKANLayer(i - 1, pairs[i][1], pairs[i][1], num_grids, kwargs)]

\* FasterKAN.__init__: the ModuleList of the stack
FasterKAN_init(layers_hidden, num_grids, kwargs) ==
  LET pairs == Zip(ButLast(layers_hidden), Rest(layers_hidden))
  IN [i \in 1..Len(pairs) |->
        FasterKANLayer(i - 1, pairs[i][1], pairs[i][2], num_grids, kwargs)]

\* the loop "for layer in layers: x = layer(x)"; trace records, per layer
\* entered, its key and the tensor it was handed
RECURSIVE RunLayers(_, _, _)
RunLayers(layers, x, trace) ==
  IF layers = <<>> \/ ~Ok(x) THEN [x |-> x, trace |-> trace]
  ELSE RunLayers(Tail(layers), FasterKANLayer_forward(Head(layers), x),
                 Append(trace, [layer |-> Head(layers).name, x |-> x]))

\* (mutant) the loop runs over self.layers[1:]
FasterKAN_forward_tail(layers, x) == RunLayers(Rest(layers), x, <<>>)

\* FasterKAN.forward
FasterKAN_forward(layers, x) == RunLayers(layers, x, <<>>)

\* ------------------------------------------------------- convolutional stages
\* a constructed torch module: its class, its path, its sizes, its children
Module(op, name, cin, cout, k, stride, pad, groups, sub) ==
  [op |-> op, name |-> name, cin |-> cin, cout |-> cout, k |-> k,
   stride |-> stride, pad |-> pad, groups |-> groups, sub |-> sub]

Conv2d(name, cin, cout, k, stride, pad, groups) ==
  Module("Conv2d", name, cin, cout, k, stride, pad, groups, <<>>)

BatchNorm2d(name, c) == Module("BatchNorm2d", name, c, c, 0, 0, 0, 0, <<>>)

ReLU(name) == Module("ReLU", name, 0, 0, 0, 0, 0, 0, <<>>)

MaxPool2d(name, k, stride) == Module("MaxPool2d", name, 0, 0, k, stride, 0, 0, <<>>)

Dropout(name, p) == Module("Dropout", name, 0, 0, p, 0, 0, 0, <<>>)

Linear(name, cin, cout) == Module("Linear", name, cin, cout, 0, 0, 0, 0, <<>>)

\* the buffers of a freshly built BatchNorm2d; the running statistics are the
\* fractions running_mean / 10^exp and running_var / 10^exp
FreshBuffers == [running_mean |-> 0, running_var |-> 1, exp |-> 0, num_batches_tracked |-> 0]

RECURSIVE Pow10(_)
Pow10(n) == IF n = 0 THEN 1 ELSE 10 * Pow10(n - 1)

\* the per-channel statistics of a batch, in abstract units
BatchMean(x) == 1

BatchVar(x) == 2

\* size of a convolved / pooled side
ConvOut(side, k, stride, pad) == (side + 2 * pad - k) \div stride + 1

\* nn.Conv2d.forward on a (batch, channels, height, width) tensor
Conv2d_forward(m, x) ==
  IF ~Ok(x) THEN x
  ELSE IF Dim(x) # 4 \/ m.cout < m.groups \/ x.shape[2] # m.cin
          \/ x.shape[3] + 2 * m.pad < m.k \/ x.shape[4] + 2 * m.pad < m.k
       THEN Raise(x, "RuntimeError", -1)
       ELSE Apply(x, <<x.shape[1], m.cout,
                       ConvOut(x.shape[3], m.k, m.stride, m.pad),
                       ConvOut(x.shape[4], m.k, m.stride, m.pad)>>,
                  "conv", m.name, 0, 0)

\* (mutant) the statistics are tracked in evaluation mode too
BatchNorm2d_forward_tracking(m, st, training) ==
  LET x == st.x
      b == st.bufs[m.name]
  IN IF ~Ok(x) THEN st
     ELSE IF Dim(x) # 4 \/ x.shape[2] # m.cin
          THEN [st EXCEPT !.x = Raise(x, "RuntimeError", -1)]
     ELSE [st EXCEPT
             !.x = Apply(x, x.shape, "bn.batch", m.name, 0, 0),
             !.bufs = [st.bufs EXCEPT
                ![m.name].num_batches_tracked = @ + 1,
                ![m.name].running_mean = 9 * @ + BatchMean(x) * Pow10(b.exp),
                ![m.name].running_var = 9 * @ + BatchVar(x) * Pow10(b.exp),
                ![m.name].exp = @ + 1]]

\* nn.BatchNorm2d.forward: in training mode it counts the batch, normalizes
\* with the batch statistics and folds them into the running statistics
\* (momentum 0.1); in evaluation mode it normalizes with the running statistics
BatchNorm2d_forward(m, st, training) ==
  LET x == st.x
      b == st.bufs[m.name]
      counted == IF training
                 THEN [st.bufs EXCEPT ![m.name].num_batches_tracked = @ + 1]
                 ELSE st.bufs
  IN IF ~Ok(x) THEN st
     ELSE IF Dim(x) # 4 THEN [st EXCEPT !.x = Raise(x, "ValueError", -1)]
     ELSE IF training /\ x.shape[1] * x.shape[3] * x.shape[4] = 1
          THEN [st EXCEPT !.x = Raise(x, "ValueError", -1), !.bufs = counted]
     ELSE IF x.shape[2] # m.cin
          THEN [st EXCEPT !.x = Raise(x, "RuntimeError", -1), !.bufs = counted]
     ELSE IF training
          THEN [st EXCEPT
                  !.x = Apply(x, x.shape, "bn.batch", m.name, 0, 0),
                  !.bufs = [counted EXCEPT
                     ![m.name].running_mean = 9 * @ + BatchMean(x) * Pow10(b.exp),
                     ![m.name].running_var = 9 * @ + BatchVar(x) * Pow10(b.exp),
                     ![m.name].exp = @ + 1]]
          ELSE [st EXCEPT
                  !.x = Apply(x, x.shape, "bn.running", m.name, b.running_mean, b.exp)]

ReLU_forward(m, x) == IF ~Ok(x) THEN x ELSE Apply(x, x.shape, "relu", m.name, 0, 0)

\* nn.MaxPool2d(k, stride).forward
MaxPool2d_forward(m, x) ==
  IF ~Ok(x) THEN x
  ELSE IF Dim(x) # 4 \/ x.shape[3] < m.k \/ x.shape[4] < m.k
       THEN Raise(x, "RuntimeError", -1)
       ELSE Apply(x, <<x.shape[1], x.shape[2],
                       ConvOut(x.shape[3], m.k, m.stride, 0),
                       ConvOut(x.shape[4], m.k, m.stride, 0)>>,
                  "maxpool", m.name, 0, 0)

\* nn.Dropout.forward: the identity in evaluation mode
Dropout_forward(m, x, training) ==
  IF ~Ok(x) \/ ~training THEN x ELSE Apply(x, x.shape, "dropout", m.name, 0, 0)

\* nn.AdaptiveAvgPool2d(1).forward
AdaptiveAvgPool2d_forward(name, x) ==
  IF ~Ok(x) THEN x
  ELSE IF Dim(x) # 4 THEN Raise(x, "RuntimeError", -1)
       ELSE Apply(x, <<x.shape[1], x.shape[2], 1, 1>>, "avg_pool", name, 0, 0)

\* nn.Linear.forward
Linear_forward(m, x) ==
  IF ~Ok(x) THEN x
  ELSE IF Dim(x) < 1 \/ Last(x.shape) # m.cin THEN Raise(x, "RuntimeError", -1)
       ELSE Apply(x, Append(Front(x.shape), m.cout), "linear", m.name, 0, 0)

\* a + b on equal shapes
Add(a, b) ==
  IF ~Ok(a) THEN a
  ELSE IF ~Ok(b) THEN b
  ELSE IF a.shape # b.shape THEN Raise(a, "RuntimeError", -1)
  ELSE Tensor(a.shape, a.val \o b.val \o <<Tok("add", "", 0, 0)>>)

\* Tensor.permute(0, 2, 1)
Permute021(x) ==
  IF ~Ok(x) THEN x
  ELSE Apply(x, <<x.shape[1], x.shape[3], x.shape[2]>>, "permute021", "", 0, 0)

\* torch.bmm(a, b): (B, n, m) x (B, m, p) -> (B, n, p)
Bmm(a, b) ==
  IF ~Ok(a) THEN a
  ELSE IF ~Ok(b) THEN b
  ELSE IF Dim(a) # 3 \/ Dim(b) # 3 \/ a.shape[1] # b.shape[1] \/ a.shape[3] # b.shape[2]
       THEN Raise(a, "RuntimeError", -1)
  ELSE Tensor(<<a.shape[1], a.shape[2], b.shape[3]>>,
              a.val \o b.val \o <<Tok("bmm", "", 0, 0)>>)

\* ------------------------------------------------------------ BasicResBlock
\* paths of the BatchNorm2d modules of the block at path name
BlockNorms(name) ==
  CASE name = "initial_layers.8" ->
         [bn1 |-> "initial_layers.8.bn1", bn2 |-> "initial_layers.8.bn2",
          downsample |-> "initial_layers.8.downsample.1"]
    [] name = "initial_layers.18" ->
         [bn1 |-> "initial_layers.18.bn1", bn2 |-> "initial_layers.18.bn2",
          downsample |-> "initial_layers.18.downsample.1"]
    [] OTHER -> [bn1 |-> "bn1", bn2 |-> "bn2", downsample |-> "downsample.1"]

\* BasicResBlock.__init__
BasicResBlock(name, in_channels, out_channels, stride) ==
  Module("BasicResBlock", name, in_channels, out_channels, 3, stride, 1, 1,
    [conv1 |-> Conv2d("conv1", in_channels, out_channels, 3, stride, 1, 1),
     bn1   |-> BatchNorm2d(BlockNorms(name).bn1, out_channels),
     conv2 |-> Conv2d("conv2", out_channels, out_channels, 3, 1, 1, 1),
     bn2   |-> BatchNorm2d(BlockNorms(name).bn2, out_channels),
     downsample |->
       IF stride # 1 \/ in_channels # out_channels
       THEN <<Conv2d("downsample.0", in_channels, out_channels, 1, stride, 0, 1),
              BatchNorm2d(BlockNorms(name).downsample, out_channels)>>
       ELSE <<>>])

\* (mutant) "other += target": the sum lands in the other operand
IAdd_into_other(heap, target, other) ==
  [heap EXCEPT ![other] = Add(heap[other], heap[target])]

\* "target += other" on the tensor objects of a frame: the object named
\* target is overwritten, every other object keeps its contents
IAdd(heap, target, other) == [heap EXCEPT ![target] = Add(heap[target], heap[other])]

\* ------------------------------------------------------------------ SEBlock
\* SEBlock.__init__
SEBlock(name, channel, reduction) ==
  Module("SEBlock", name, channel, channel, 0, 0, 0, 0,
    <<Linear("fc.0", channel, channel \div reduction),
      ReLU("fc.1"),
      Linear("fc.2", channel \div reduction, channel),
      Module("Sigmoid", "fc.3", 0, 0, 0, 0, 0, 0, <<>>)>>)

\* SEBlock.forward
SEBlock_forward(m, x) ==
  IF ~Ok(x) THEN x
  ELSE IF Dim(x) # 4 THEN Raise(x, "ValueError", -1)
  ELSE LET b == x.shape[1]
           c == x.shape[2]
           y1 == View(AdaptiveAvgPool2d_forward("avg_pool", x), <<b, c>>)
           y2 == Linear_forward(m.sub[3], ReLU_forward(m.sub[2], Linear_forward(m.sub[1], y1)))
           y3 == IF Ok(y2) THEN Apply(y2, y2.shape, "sigmoid", m.sub[4].name, 0, 0) ELSE y2
           y == View(y3, <<b, c, 1, 1>>)
       IN IF ~Ok(y) THEN y
          ELSE Tensor(x.shape, x.val \o y.val \o <<Tok("mul", m.name, 0, 0)>>)

\* --------------------------------------------------- DepthwiseSeparableConv
\* DepthwiseSeparableConv.__init__
DepthwiseSeparableConv(name, in_channels, out_channels, kernel_size, stride, padding) ==
  Module("DepthwiseSeparableConv", name, in_channels, out_channels, kernel_size,
         stride, padding, 1,
    <<Conv2d("depthwise", in_channels, in_channels, kernel_size, stride, padding, in_channels),
      Conv2d("pointwise", in_channels, out_channels, 1, 1, 0, 1)>>)

\* DepthwiseSeparableConv.forward
DepthwiseSeparableConv_forward(m, x) == Conv2d_forward(m.sub[2], Conv2d_forward(m.sub[1], x))

\* ------------------------------------------------------------ SelfAttention
\* SelfAttention.__init__ (gamma, the learnable scalar, starts at 0 and lives
\* with the other parameters)
SelfAttention(name, in_channels) ==
  Module("SelfAttention", name, in_channels, in_channels, 1, 1, 0, 1,
    <<Conv2d("query_conv", in_channels, in_channels \div 8, 1, 1, 0, 1),
      Conv2d("key_conv", in_channels, in_channels \div 8, 1, 1, 0, 1),
      Conv2d("value_conv", in_channels, in_channels, 1, 1, 0, 1)>>)

\* (mutant) gamma * out, the input not added back
Axpy_no_residual(gamma, out, x) ==
  IF ~Ok(out) THEN out
  ELSE Tensor(out.shape, Append(out.val, Tok("scale", "gamma", gamma, 0)))

\* gamma * out + x
Axpy(gamma, out, x) ==
  IF ~Ok(out) THEN out
  ELSE IF out.shape # x.shape THEN Raise(x, "RuntimeError", -1)
  ELSE IF gamma = 0 THEN Tensor(x.shape, x.val)
  ELSE Tensor(x.shape, out.val \o x.val \o <<Tok("axpy", "gamma", gamma, 0)>>)

\* SelfAttention.forward
SelfAttention_forward(m, x, gamma) ==
  IF ~Ok(x) THEN x
  ELSE IF Dim(x) # 4 THEN Raise(x, "ValueError", -1)
  ELSE LET batch_size == x.shape[1]
           C == x.shape[2]
           width == x.shape[3]
           height == x.shape[4]
           proj_query == Permute021(View(Conv2d_forward(m.sub[1], x),
                                         <<batch_size, -1, width * height>>))
           proj_key == View(Conv2d_forward(m.sub[2], x), <<batch_size, -1, width * height>>)
           energy == Bmm(proj_query, proj_key)
           attention == IF Ok(energy) THEN Apply(energy, energy.shape, "softmax", "", 0, 0)
                        ELSE energy
           proj_value == View(Conv2d_forward(m.sub[3], x), <<batch_size, -1, width * height>>)
           out == View(Bmm(proj_value, Permute021(attention)),
                       <<batch_size, C, width, height>>)
       IN Axpy(gamma, out, x)

\* ------------------------------------------------- running a module, a chain
\* A frame st = [x, bufs, stages]: the tensor in flight, the BatchNorm buffers
\* of the network, and the children of the Sequential entered so far.
\* env = [training, gamma]: the mode flag and the attention scalar.
RECURSIVE Module_forward(_, _, _), Sequential_forward(_, _, _), BasicResBlock_forward(_, _, _)

\* nn.Sequential.forward: each child in turn, on the previous child's output
Sequential_forward(mods, st, env) ==
  IF mods = <<>> \/ ~Ok(st.x) THEN st
  ELSE Sequential_forward(Tail(mods),
         Module_forward(Head(mods), [st EXCEPT !.stages = Append(@, Head(mods).op)], env),
         env)

\* BasicResBlock.forward after the identity path: st holds the block's input,
\* and the buffers as the identity path left them
BasicResBlock_convs(m, st, env) ==
  BatchNorm2d_forward(m.sub.bn2,
    [BatchNorm2d_forward(m.sub.bn1,
       [st EXCEPT !.x = Conv2d_forward(m.sub.conv1, @)], env.training)
     EXCEPT !.x = Conv2d_forward(m.sub.conv2, ReLU_forward(ReLU("relu"), @))],
    env.training)

\* "out += identity; out = F.relu(out)": s2 is the frame behind bn2, aliased
\* tells whether identity is the object x itself
BasicResBlock_add(x, identity, aliased, s2) ==
  LET heap == IAdd([x |-> x, identity |-> identity, out |-> s2.x],
                   "out", IF aliased THEN "x" ELSE "identity")
  IN IF ~Ok(s2.x) THEN [x |-> s2.x, bufs |-> s2.bufs, stages |-> s2.stages, arg |-> x]
     ELSE [x |-> ReLU_forward(ReLU("relu"), heap.out), bufs |-> s2.bufs,
           stages |-> s2.stages, arg |-> heap.x]

\* BasicResBlock.forward from "identity = self.downsample(x)" on: s0 is the
\* frame the identity path returned
BasicResBlock_residual(m, st, s0, env) ==
  IF ~Ok(s0.x)
  THEN [x |-> s0.x, bufs |-> s0.bufs, stages |-> st.stages, arg |-> st.x]
  ELSE BasicResBlock_add(st.x, s0.x, m.sub.downsample = <<>>,
         BasicResBlock_convs(m, [st EXCEPT !.bufs = s0.bufs], env))

\* BasicResBlock.forward; arg is the caller's input tensor as the call leaves it
BasicResBlock_forward(m, st, env) ==
  BasicResBlock_residual(m, st,
    Sequential_forward(m.sub.downsample, [st EXCEPT !.stages = <<>>], env), env)

\* the frame a block hands back to the Sequential around it
Returned(r) == [x |-> r.x, bufs |-> r.bufs, stages |-> r.stages]

\* calling a child module
Module_forward(m, st, env) ==
  CASE m.op = "Conv2d" -> [st EXCEPT !.x = Conv2d_forward(m, st.x)]
    [] m.op = "BatchNorm2d" -> BatchNorm2d_forward(m, st, env.training)
    [] m.op = "ReLU" -> [st EXCEPT !.x = ReLU_forward(m, st.x)]
    [] m.op = "MaxPool2d" -> [st EXCEPT !.x = MaxPool2d_forward(m, st.x)]
    [] m.op = "Dropout" -> [st EXCEPT !.x = Dropout_forward(m, st.x, env.training)]
    [] m.op = "BasicResBlock" -> Returned(BasicResBlock_forward(m, st, env))
    [] m.op = "SEBlock" -> [st EXCEPT !.x = SEBlock_forward(m, st.x)]
    [] m.op = "DepthwiseSeparableConv" ->
         [st EXCEPT !.x = DepthwiseSeparableConv_forward(m, st.x)]
    [] m.op = "SelfAttention" -> [st EXCEPT !.x = SelfAttention_forward(m, st.x, env.gamma)]

\* ------------------------------------------------- EnhancedFeatureExtractor
\* (mutant) the first normalization directly behind its convolution, the
\* rectifier behind the normalization
EnhancedFeatureExtractor_norm_first(input_channels, hidden_dim) ==
  Module("EnhancedFeatureExtractor", "feature_extractor", input_channels, hidden_dim,
         0, 0, 0, 0,
    [initial_layers |->
       <<Conv2d("initial_layers.0", input_channels, 32, 3, 1, 1, 1),
         BatchNorm2d("initial_layers.1", 32),
         ReLU("initial_layers.2"),
         Conv2d("initial_layers.3", 32, 64, 3, 1, 1, 1),
         ReLU("initial_layers.4"),
         BatchNorm2d("initial_layers.5", 64),
         MaxPool2d("initial_layers.6", 2, 2),
         Dropout("initial_layers.7", 25),
         BasicResBlock("initial_layers.8", 64, 128, 1),
         SEBlock("initial_layers.9", 128, 16),
         Conv2d("initial_layers.10", 128, 256, 3, 1, 1, 1),
         ReLU("initial_layers.11"),
         BatchNorm2d("initial_layers.12", 256),
         MaxPool2d("initial_layers.13", 2, 2),
         Dropout("initial_layers.14", 25),
         DepthwiseSeparableConv("initial_layers.15", 256, 512, 3, 1, 1),
         ReLU("initial_layers.16"),
         BatchNorm2d("initial_layers.17", 512),
         BasicResBlock("initial_layers.18", 512, 512, 1),
         SEBlock("initial_layers.19", 512, 16),
         MaxPool2d("initial_layers.20", 2, 2),
         Dropout("initial_layers.21", 25),
         SelfAttention("initial_layers.22", 512)>>,
     fc |-> Linear("fc", 512, hidden_dim)])

\* EnhancedFeatureExtractor.__init__
EnhancedFeatureExtractor(input_channels, hidden_dim) ==
  Module("EnhancedFeatureExtractor", "feature_extractor", input_channels, hidden_dim,
         0, 0, 0, 0,
    [initial_layers |->
       <<Conv2d("initial_layers.0", input_channels, 32, 3, 1, 1, 1),
         ReLU("initial_layers.1"),
         BatchNorm2d("initial_layers.2", 32),
         Conv2d("initial_layers.3", 32, 64, 3, 1, 1, 1),
         ReLU("initial_layers.4"),
         BatchNorm2d("initial_layers.5", 64),
         MaxPool2d("initial_layers.6", 2, 2),
         Dropout("initial_layers.7", 25),
         BasicResBlock("initial_layers.8", 64, 128, 1),
         SEBlock("initial_layers.9", 128, 16),
         Conv2d("initial_layers.10", 128, 256, 3, 1, 1, 1),
         ReLU("initial_layers.11"),
         BatchNorm2d("initial_layers.12", 256),
         MaxPool2d("initial_layers.13", 2, 2),
         Dropout("initial_layers.14", 25),
         DepthwiseSeparableConv("initial_layers.15", 256, 512, 3, 1, 1),
         ReLU("initial_layers.16"),
         BatchNorm2d("initial_layers.17", 512),
         BasicResBlock("initial_layers.18", 512, 512, 1),
         SEBlock("initial_layers.19", 512, 16),
         MaxPool2d("initial_layers.20", 2, 2),
         Dropout("initial_layers.21", 25),
         SelfAttention("initial_layers.22", 512)>>,
     fc |-> Linear("fc", 512, hidden_dim)])

\* (mutant) the global average pooling is left out
EnhancedFeatureExtractor_forward_unpooled(m, st, env) ==
  IF Dim(st.x) < 1 THEN [st EXCEPT !.x = Raise(st.x, "IndexError", -1)]
  ELSE LET batch_size == st.x.shape[1]
       IN [Sequential_forward(m.sub.initial_layers, st, env)
             EXCEPT !.x = Linear_forward(m.sub.fc, View(@, <<batch_size, -1>>))]

\* EnhancedFeatureExtractor.forward
EnhancedFeatureExtractor_forward(m, st, env) ==
  IF Dim(st.x) < 1 THEN [st EXCEPT !.x = Raise(st.x, "IndexError", -1)]
  ELSE LET batch_size == st.x.shape[1]
       IN [Sequential_forward(m.sub.initial_layers, st, env)
             EXCEPT !.x = Linear_forward(m.sub.fc,
                            View(AdaptiveAvgPool2d_forward("avg_pool", @),
                                 <<batch_size, -1>>))]

\* ---------------------------------------------------------- FasterKANvolver
\* (mutant) hidden_dim is not put in front of layers_hidden
FasterKANvolver_init_unprefixed(layers_hidden, input_channels, hidden_dim, num_grids, kwargs) ==
  LET pairs == Zip(ButLast(layers_hidden), Rest(layers_hidden))
  IN [feature_extractor |-> EnhancedFeatureExtractor(input_channels, hidden_dim),
      faster_kan_layers |->
        [i \in 1..Len(pairs) |->
           FasterKANLayer(i - 1, pairs[i][1], pairs[i][2], num_grids, kwargs)]]

\* FasterKANvolver.__init__: the extractor and the ModuleList behind it
FasterKANvolver_init(layers_hidden, input_channels, hidden_dim, num_grids, kwargs) ==
  LET widths == <<hidden_dim>> \o layers_hidden
      pairs == Zip(ButLast(widths), Rest(widths))
  IN [feature_extractor |-> EnhancedFeatureExtractor(input_channels, hidden_dim),
      faster_kan_layers |->
        [i \in 1..Len(pairs) |->
           FasterKANLayer(i - 1, pairs[i][1], pairs[i][2], num_grids, kwargs)]]

\* FasterKANvolver.forward behind the extractor: s1 is the frame it returned
FasterKANvolver_layers(layers, s1) ==
  LET r == RunLayers(layers, s1.x, <<>>)
  IN [x |-> r.x, bufs |-> s1.bufs, stages |-> s1.stages, trace |-> r.trace,
      features |-> s1.x]

\* FasterKANvolver.forward
FasterKANvolver_forward(v, st, env) ==
  FasterKANvolver_layers(v.faster_kan_layers,
    EnhancedFeatureExtractor_forward(v.feature_extractor, st, env))

\* every BatchNorm2d path below a module
RECURSIVE Norms(_), NormsOf(_)
NormsOf(mods) == IF mods = <<>> THEN {} ELSE Norms(Head(mods)) \cup NormsOf(Tail(mods))

Norms(m) ==
  CASE m.op = "BatchNorm2d" -> {m.name}
    [] m.op = "BasicResBlock" ->
         {m.sub.bn1.name, m.sub.bn2.name} \cup NormsOf(m.sub.downsample)
    [] m.op = "EnhancedFeatureExtractor" -> NormsOf(m.sub.initial_layers)
    [] OTHER -> {}

\* ------------------------------------------------------------ the program
VARIABLES
  net,       \* the module under construction / use: its class, layers, stages
  training,  \* nn.Module.training of the whole module tree
  params,    \* the parameters: a version of the weights, and gamma
  bufs,      \* the buffers of every BatchNorm2d, by path
  call       \* the last forward call: its input, its outcome, what it touched

vars == <<net, training, params, bufs, call>>

NoModule == Module("none", "", 0, 0, 0, 0, 0, 0, <<>>)

NoTensor == Tensor(<<>>, <<>>)

NoCall ==
  [op |-> "none", input |-> NoTensor, output |-> NoTensor, arg |-> NoTensor,
   features |-> NoTensor, trace |-> <<>>, stages |-> <<>>,
   training |-> TRUE, gamma |-> 0]

Net(kind, layers_hidden, layers, conv) ==
  [kind |-> kind, err |-> "", layers_hidden |-> layers_hidden, layers |-> layers,
   conv |-> conv]

FreshParams == [weights |-> 0, gamma |-> 0]

\* every list of at most n elements of S
SeqsUpTo(S, n) == UNION {[1..k -> S] : k \in 0..n}

\* the hyperparameters a caller may choose
NumGrids == {3, 8}

DefaultStackKwargs == StackKwargs(-12, 2, 2, 5, FALSE, FALSE, "None", 10)

DefaultVolverKwargs == VolverKwargs(-12, 2, 2, 5, FALSE, FALSE, 10)

\* spline_weight_init_scale values a caller may configure (tenths): 0.1, 1.0
InitScales == {1, 10}

\* the defaults with spline_weight_init_scale set by the caller
StackKwargsWith(scale) == StackKwargs(-12, 2, 2, 5, FALSE, FALSE, "None", scale)

VolverKwargsWith(scale) == VolverKwargs(-12, 2, 2, 5, FALSE, FALSE, scale)

\* tensors handed to a KAN layer or stack: every rank 0..MaxRank
KanInputs ==
  {Input(<<>>)}
  \cup {Input(Append(lead, w)) :
          lead \in SeqsUpTo(1..MaxAxis, MaxRank - 1), w \in FeatureDims}

\* images handed to the extractor and the hybrid network
ImageInputs ==
  {Input(<<b, c, hw[1], hw[2]>>) :
     b \in 1..MaxAxis, c \in ImageChannels, hw \in ImageSizes}

\* feature maps handed to a stand-alone block
BlockInputs ==
  {Input(<<b, c, hw[1], hw[2]>>) :
     b \in BlockBatches, c \in BlockChannels, hw \in BlockSizes}

Init ==
  /\ net = Net("none", <<>>, <<>>, NoModule)
  /\ training = TRUE
  /\ params = FreshParams
  /\ bufs = [n \in {} |-> FreshBuffers]
  /\ call = NoCall

\* a constructor returned: the new module is in training mode, its
\* parameters and buffers are fresh, nothing has been called on it
Constructed(n) ==
  /\ net.kind = "none"
  /\ net' = n
  /\ training' = TRUE
  /\ params' = FreshParams
  /\ bufs' = [b \in Norms(n.conv) |-> FreshBuffers]
  /\ call' = NoCall

NewFasterKANLayer ==
  \E input_dim \in FeatureDims, output_dim \in FeatureDims, num_grids \in NumGrids :
    Constructed(Net("FasterKANLayer", <<>>,
                    <<FasterKANLayer(0, input_dim, output_dim, num_grids,
                                     DefaultStackKwargs)>>,
                    NoModule))

NewFasterKAN ==
  \E layers_hidden \in SeqsUpTo(FeatureDims, MaxLayers), num_grids \in NumGrids,
     spline_weight_init_scale \in InitScales :
    Constructed(Net("FasterKAN", layers_hidden,
                    FasterKAN_init(layers_hidden, num_grids,
                                   StackKwargsWith(spline_weight_init_scale)),
                    NoModule))

NewFasterKANvolver ==
  \E layers_hidden \in VolverLists,
     input_channels \in ImageChannels, hidden_dim \in HiddenDims,
     spline_weight_init_scale \in InitScales :
    LET v == FasterKANvolver_init(layers_hidden, input_channels, hidden_dim, 8,
                                  VolverKwargsWith(spline_weight_init_scale))
    IN Constructed(Net("FasterKANvolver", layers_hidden, v.faster_kan_layers,
                       v.feature_extractor))

NewBasicResBlock ==
  \E in_channels \in BlockChannels, out_channels \in BlockChannels, stride \in BlockStrides :
    Constructed(Net("BasicResBlock", <<>>, <<>>,
                    BasicResBlock("", in_channels, out_channels, stride)))

NewSelfAttention ==
  \E in_channels \in BlockChannels :
    Constructed(Net("SelfAttention", <<>>, <<>>, SelfAttention("", in_channels)))

NewEnhancedFeatureExtractor ==
  \E input_channels \in ImageChannels, hidden_dim \in HiddenDims :
    Constructed(Net("EnhancedFeatureExtractor", <<>>, <<>>,
                    EnhancedFeatureExtractor(input_channels, hidden_dim)))

\* model.train() / model.eval()
SetMode ==
  /\ net.kind # "none"
  /\ training' = ~training
  /\ UNCHANGED <<net, params, bufs, call>>

\* optimizer.step(): the one place parameters change
OptimizerStep ==
  /\ net.kind # "none"
  /\ params.weights < MaxOptim
  /\ params' = [weights |-> params.weights + 1, gamma |-> params.gamma + 1]
  /\ UNCHANGED <<net, training, bufs, call>>

Env == [training |-> training, gamma |-> params.gamma]

Frame(x) == [x |-> x, bufs |-> bufs, stages |-> <<>>]

\* room for one more counted batch in every BatchNorm2d
CanCount == training => \A n \in DOMAIN bufs : bufs[n].num_batches_tracked < MaxTrain

Called(op, x, output, arg, features, trace, stages) ==
  /\ call.op = "none"
  /\ call' = [op |-> op, input |-> x, output |-> output, arg |-> arg,
              features |-> features, trace |-> trace, stages |-> stages,
              training |-> training, gamma |-> params.gamma]

ForwardLayer ==
  /\ net.kind = "FasterKANLayer"
  /\ \E x \in KanInputs :
       Called("FasterKANLayer.forward", x, FasterKANLayer_forward(net.layers[1], x),
              x, NoTensor, <<>>, <<>>)
  /\ UNCHANGED <<net, training, params, bufs>>

ForwardFasterKAN ==
  /\ net.kind = "FasterKAN"
  /\ \E x \in KanInputs :
       LET r == FasterKAN_forward(net.layers, x)
       IN Called("FasterKAN.forward", x, r.x, x, NoTensor, r.trace, <<>>)
  /\ UNCHANGED <<net, training, params, bufs>>

ForwardBasicResBlock ==
  /\ net.kind = "BasicResBlock"
  /\ CanCount
  /\ \E x \in BlockInputs :
       LET r == BasicResBlock_forward(net.conv, Frame(x), Env)
       IN /\ Called("BasicResBlock.forward", x, r.x, r.arg, NoTensor, <<>>, <<>>)
          /\ bufs' = r.bufs
  /\ UNCHANGED <<net, training, params>>

ForwardSelfAttention ==
  /\ net.kind = "SelfAttention"
  /\ \E x \in BlockInputs :
       Called("SelfAttention.forward", x, SelfAttention_forward(net.conv, x, params.gamma),
              x, NoTensor, <<>>, <<>>)
  /\ UNCHANGED <<net, training, params, bufs>>

ForwardEnhancedFeatureExtractor ==
  /\ net.kind = "EnhancedFeatureExtractor"
  /\ CanCount
  /\ \E x \in ImageInputs :
       LET r == EnhancedFeatureExtractor_forward(net.conv, Frame(x), Env)
       IN /\ Called("EnhancedFeatureExtractor.forward", x, r.x, x, r.x, <<>>, r.stages)
          /\ bufs' = r.bufs
  /\ UNCHANGED <<net, training, params>>

ForwardFasterKANvolver ==
  /\ net.kind = "FasterKANvolver"
  /\ CanCount
  /\ \E x \in ImageInputs :
       LET r == FasterKANvolver_forward(
                  [feature_extractor |-> net.conv, faster_kan_layers |-> net.layers],
                  Frame(x), Env)
       IN /\ Called("FasterKANvolver.forward", x, r.x, x, r.features, r.trace, r.stages)
          /\ bufs' = r.bufs
  /\ UNCHANGED <<net, training, params>>

\* the caller drops the tensors of its last call
Discard ==
  /\ call.op # "none"
  /\ call' = NoCall
  /\ UNCHANGED <<net, training, params, bufs>>

Next ==
  \/ NewFasterKANLayer
  \/ NewFasterKAN
  \/ NewFasterKANvolver
  \/ NewBasicResBlock
  \/ NewSelfAttention
  \/ NewEnhancedFeatureExtractor
  \/ SetMode
  \/ OptimizerStep
  \/ ForwardLayer
  \/ ForwardFasterKAN
  \/ ForwardBasicResBlock
  \/ ForwardSelfAttention
  \/ ForwardEnhancedFeatureExtractor
  \/ ForwardFasterKANvolver
  \/ Discard

Spec == Init /\ [][Next]_vars

\* the KAN layer and the networks built from it
NextKAN ==
  \/ NewFasterKANLayer
  \/ NewFasterKAN
  \/ NewFasterKANvolver
  \/ ForwardLayer
  \/ ForwardFasterKAN
  \/ ForwardFasterKANvolver
  \/ Discard

SpecKAN == Init /\ [][NextKAN]_vars

\* the stand-alone convolutional blocks
NextBlock ==
  \/ NewBasicResBlock
  \/ NewSelfAttention
  \/ SetMode
  \/ OptimizerStep
  \/ ForwardBasicResBlock
  \/ ForwardSelfAttention
  \/ Discard

SpecBlock == Init /\ [][NextBlock]_vars

\* the feature extractor and the hybrid network
NextNet ==
  \/ NewEnhancedFeatureExtractor
  \/ NewFasterKANvolver
  \/ SetMode
  \/ OptimizerStep
  \/ ForwardEnhancedFeatureExtractor
  \/ ForwardFasterKANvolver
  \/ Discard

SpecNet == Init /\ [][NextNet]_vars

\* the modules whose state a forward pass could touch, each on its own
NextState ==
  \/ NewFasterKANLayer
  \/ NewBasicResBlock
  \/ NewEnhancedFeatureExtractor
  \/ SetMode
  \/ OptimizerStep
  \/ ForwardLayer
  \/ ForwardBasicResBlock
  \/ ForwardEnhancedFeatureExtractor
  \/ Discard

SpecState == Init /\ [][NextState]_vars

\* ====================================================================== claims
\* the tokens one KAN layer appends to the term of its input
LayerTokens(name) ==
  <<Tok("layernorm", "layers", name, 0), Tok("rbf", "layers", name, 0),
    Tok("spline_linear", "layers", name, 0)>>

\* the tokens layers 0..k-1, applied in that order, append
RECURSIVE ChainTokens(_)
ChainTokens(k) == IF k = 0 THEN <<>> ELSE ChainTokens(k - 1) \o LayerTokens(k - 1)

\* a tensor a KAN layer of width w accepts: rank 2 or 3, last axis w
ValidFor(x, w) == Dim(x) \in {2, 3} /\ Last(x.shape) = w

\* C1: FasterKANLayer.forward keeps the leading axes of its input: an input of
\* shape (S, I) yields (S, O) and one of shape (B, S, I) yields (B, S, O), for
\* every B >= 1 and S >= 1, B = 1 and S = 1 included.
C1_LeadingAxesKept ==
  (call.op = "FasterKANLayer.forward" /\ ValidFor(call.input, InputDim(net.layers[1])))
    => /\ Ok(call.output)
       /\ call.output.shape = Append(Front(call.input.shape), OutputDim(net.layers[1]))

\* C1 witness: a rank-3 input with batch axis 1 came back with its batch axis
C1_Witness ==
  /\ call.op = "FasterKANLayer.forward"
  /\ Dim(call.input) = 3
  /\ call.input.shape[1] = 1
  /\ Ok(call.output)
  /\ Dim(call.output) = 3

\* C2 (as claimed): every input whose rank is neither 2 nor 3 is rejected with
\* the ValueError that names its rank.
C2_RankErrorNamesRank ==
  (call.op = "FasterKANLayer.forward" /\ Dim(call.input) \notin {2, 3})
    => /\ call.output.err = "ValueError"
       /\ call.output.rank = Dim(call.input)

\* C3 (as claimed): a FasterKAN built from fewer than two dimensions fails at
\* construction, and no forward call on it ever returns.
C3_ShortListRejected ==
  (net.kind = "FasterKAN" /\ Len(net.layers_hidden) < 2)
    => /\ net.err # ""
       /\ ~(call.op = "FasterKAN.forward" /\ Ok(call.output))

\* layers is the chain dims[1] -> dims[2] -> ... -> dims[Len(dims)]
Chains(dims, layers) ==
  /\ Len(layers) = Len(dims) - 1
  /\ \A i \in 1..Len(layers) :
       /\ layers[i].name = i - 1
       /\ InputDim(layers[i]) = dims[i]
       /\ OutputDim(layers[i]) = dims[i + 1]
  /\ \A i \in 1..(Len(layers) - 1) : OutputDim(layers[i]) = InputDim(layers[i + 1])

\* C4: a stack built from [d_0, ..., d_k], k >= 1, has exactly k layers, layer i
\* maps d_i to d_{i+1}, and adjacent layers chain; the same holds for the layers
\* FasterKANvolver builds from [hidden_dim] + layers_hidden.
C4_LayersChain ==
  /\ (net.kind = "FasterKAN" /\ Len(net.layers_hidden) >= 2)
       => Chains(net.layers_hidden, net.layers)
  /\ net.kind = "FasterKANvolver"
       => Chains(<<net.conv.cout>> \o net.layers_hidden, net.layers)

\* C4 witness: a stack of two layers over three different widths
C4_Witness ==
  /\ net.kind = "FasterKAN"
  /\ Len(net.layers) = 2
  /\ net.layers_hidden[1] # net.layers_hidden[2]
  /\ net.layers_hidden[2] # net.layers_hidden[3]

\* C5: FasterKAN.forward runs its layers in list order, each on the output of
\* the one before, none skipped or repeated: a valid input of last dimension d_0
\* comes out with last dimension d_k and the same leading axes.
C5_LayersInOrder ==
  (/\ call.op = "FasterKAN.forward"
   /\ Len(net.layers_hidden) >= 2
   /\ ValidFor(call.input, net.layers_hidden[1]))
    => /\ Ok(call.output)
       /\ Len(call.trace) = Len(net.layers)
       /\ \A i \in 1..Len(call.trace) : call.trace[i].layer = i - 1
       /\ call.trace[1].x = call.input
       /\ \A i \in 2..Len(call.trace) :
            call.trace[i].x.val = call.input.val \o ChainTokens(i - 1)
       /\ call.output.val = call.input.val \o ChainTokens(Len(net.layers))
       /\ call.output.shape = Append(Front(call.input.shape), Last(net.layers_hidden))

\* C5 witness: the stack [8, 16, 4] turned a rank-3 input of width 8 into width 4
C5_Witness ==
  /\ call.op = "FasterKAN.forward"
  /\ net.layers_hidden = <<8, 16, 4>>
  /\ Dim(call.input) = 3
  /\ Last(call.input.shape) = 8
  /\ Ok(call.output)
  /\ Last(call.output.shape) = 4

\* C7: in FasterKANvolver the first KAN layer is as wide as hidden_dim, the
\* extractor's output (batch, hidden_dim) is handed to it as it is, as a rank-2
\* input, and the network returns the last KAN layer's output, of shape
\* (batch, layers_hidden[-1]).
C7_ExtractorFeedsLayers ==
  /\ (net.kind = "FasterKANvolver" /\ net.layers_hidden # <<>>)
       => /\ Len(net.layers) = Len(net.layers_hidden)
          /\ InputDim(net.layers[1]) = net.conv.cout
  /\ (/\ call.op = "FasterKANvolver.forward"
      /\ net.layers_hidden # <<>>
      /\ Ok(call.features))
       => /\ call.features.shape = <<call.input.shape[1], net.conv.cout>>
          /\ call.trace[1].layer = 0
          /\ call.trace[1].x = call.features
          /\ Len(call.trace) = Len(net.layers_hidden)
          /\ Ok(call.output)
          /\ call.output.val = call.features.val \o ChainTokens(Len(net.layers_hidden))
          /\ call.output.shape = <<call.input.shape[1], Last(net.layers_hidden)>>

\* C7 witness: hidden_dim 64 and layers_hidden [32, 10] on a (2, 3, 32, 32) image
C7_Witness ==
  /\ call.op = "FasterKANvolver.forward"
  /\ net.conv.cout = 64
  /\ net.layers_hidden = <<32, 10>>
  /\ call.input.shape = <<2, 3, 32, 32>>
  /\ call.features.shape = <<2, 64>>
  /\ Ok(call.output)
  /\ call.output.shape = <<2, 10>>

\* a side that is still at least 1 after three 2x2 poolings
Survives(side) == ((side \div 2) \div 2) \div 2 >= 1

\* an image the extractor of the network accepts
GoodImage(x) ==
  /\ Dim(x) = 4
  /\ x.shape[2] = net.conv.cin
  /\ Survives(x.shape[3])
  /\ Survives(x.shape[4])

\* C6: EnhancedFeatureExtractor.forward maps every (batch, input_channels, H, W)
\* input that survives its three poolings to (batch, hidden_dim), whatever H and
\* W; behind it, the KAN layers [hidden_dim, ..., d] give (batch, d).
C6_ExtractorShape ==
  /\ (call.op = "EnhancedFeatureExtractor.forward" /\ GoodImage(call.input))
       => /\ Ok(call.output)
          /\ call.output.shape = <<call.input.shape[1], net.conv.cout>>
  /\ (/\ call.op = "FasterKANvolver.forward"
      /\ GoodImage(call.input)
      /\ net.layers_hidden # <<>>)
       => /\ call.features.shape = <<call.input.shape[1], net.conv.cout>>
          /\ Ok(call.output)
          /\ call.output.shape = <<call.input.shape[1], Last(net.layers_hidden)>>

\* C6 witness: input_channels 3, hidden_dim 64, a (2, 3, 32, 32) image gave (2, 64)
C6_Witness ==
  /\ call.op = "EnhancedFeatureExtractor.forward"
  /\ net.conv.cin = 3
  /\ net.conv.cout = 64
  /\ call.input.shape = <<2, 3, 32, 32>>
  /\ Ok(call.output)
  /\ call.output.shape = <<2, 64>>
  /\ Last(call.stages) = "SelfAttention"

\* the term rectified(bn2(conv2(...)) + input) ends as: ..., bn2, input, add, relu
EndsAsResidualOf(val, input) ==
  LET n == Len(val)
      k == Len(input)
  IN /\ n >= k + 3
     /\ val[n] = Tok("relu", "relu", 0, 0)
     /\ val[n - 1] = Tok("add", "", 0, 0)
     /\ SubSeq(val, n - 1 - k, n - 2) = input
     /\ val[n - 2 - k][1] \in {"bn.batch", "bn.running"}
     /\ val[n - 2 - k][2] = "bn2"
     /\ \E j \in 1..(n - 2 - k) : val[j] = Tok("conv", "conv2", 0, 0)

\* C8: the identity path of BasicResBlock is a projection (1x1 convolution, then
\* normalization) exactly when stride # 1 or in_channels # out_channels;
\* otherwise it is the input itself, the output is
\* rectified(second-conv-output + input), and the caller's input tensor is as it
\* was before the call.
C8_IdentityPath ==
  /\ net.kind = "BasicResBlock"
       => /\ (net.conv.sub.downsample # <<>>)
                <=> (net.conv.stride # 1 \/ net.conv.cin # net.conv.cout)
          /\ net.conv.sub.downsample # <<>>
                => /\ Len(net.conv.sub.downsample) = 2
                   /\ net.conv.sub.downsample[1].op = "Conv2d"
                   /\ net.conv.sub.downsample[1].k = 1
                   /\ net.conv.sub.downsample[1].stride = net.conv.stride
                   /\ net.conv.sub.downsample[2].op = "BatchNorm2d"
  /\ call.op = "BasicResBlock.forward"
       => /\ call.arg = call.input
          /\ (/\ net.conv.stride = 1
              /\ net.conv.cin = net.conv.cout
              /\ Ok(call.output))
               => /\ EndsAsResidualOf(call.output.val, call.input.val)
                  /\ call.output.shape = call.input.shape

\* C8 witness: a block with equal channel counts and stride 1 returned
C8_Witness ==
  /\ call.op = "BasicResBlock.forward"
  /\ net.conv.stride = 1
  /\ net.conv.cin = net.conv.cout
  /\ net.conv.sub.downsample = <<>>
  /\ Ok(call.output)

\* what SelfAttention.forward owes a (batch, in_channels, H, W) input
AttentionKeepsInput ==
  /\ Ok(call.output)
  /\ call.output.shape = call.input.shape
  /\ call.gamma = 0 => call.output.val = call.input.val
  /\ call.gamma # 0 =>
       LET v == call.output.val
           n == Len(v)
           k == Len(call.input.val)
       IN /\ n > k + 1
          /\ v[n] = Tok("axpy", "gamma", call.gamma, 0)
          /\ SubSeq(v, n - k, n - 1) = call.input.val

\* C9 (as claimed): SelfAttention.forward returns a tensor of its input's shape
\* for every input (batch, C, H, W) with C = in_channels: the input plus gamma
\* times the attention term, hence the input itself while gamma is 0.
C9_ShapeKept ==
  (/\ call.op = "SelfAttention.forward"
   /\ call.input.shape[2] = net.conv.cin)
    => AttentionKeepsInput

\* C9 (amended): the same, for blocks with in_channels >= 8.
C9_ShapeKeptFrom8 ==
  (/\ call.op = "SelfAttention.forward"
   /\ call.input.shape[2] = net.conv.cin
   /\ net.conv.cin >= 8)
    => AttentionKeepsInput

\* C9 witness: a non-square input went through a block whose gamma is still 0
C9_Witness ==
  /\ call.op = "SelfAttention.forward"
  /\ net.conv.cin >= 8
  /\ call.input.shape[2] = net.conv.cin
  /\ call.input.shape[3] # call.input.shape[4]
  /\ call.gamma = 0
  /\ Ok(call.output)
  /\ call.output.shape = call.input.shape

\* a step that is one forward call
IsForward == call.op = "none" /\ call'.op # "none"

ClaimedStages ==
  <<"Conv2d", "BatchNorm2d", "Conv2d", "BatchNorm2d", "MaxPool2d", "Dropout",
    "BasicResBlock", "SEBlock", "Conv2d", "BatchNorm2d", "MaxPool2d", "Dropout",
    "DepthwiseSeparableConv", "BatchNorm2d", "BasicResBlock", "SEBlock",
    "MaxPool2d", "Dropout", "SelfAttention">>

\* the same list with a rectifier between each of the four convolutions
\* (the depthwise-separable one included) and its normalization
RectifiedStages ==
  <<"Conv2d", "ReLU", "BatchNorm2d", "Conv2d", "ReLU", "BatchNorm2d", "MaxPool2d",
    "Dropout", "BasicResBlock", "SEBlock", "Conv2d", "ReLU", "BatchNorm2d",
    "MaxPool2d", "Dropout", "DepthwiseSeparableConv", "ReLU", "BatchNorm2d",
    "BasicResBlock", "SEBlock", "MaxPool2d", "Dropout", "SelfAttention">>

IsPrefix(s, t) == Len(s) <= Len(t) /\ s = SubSeq(t, 1, Len(s))

\* a call that ran the extractor
RanExtractor == call.op \in {"EnhancedFeatureExtractor.forward", "FasterKANvolver.forward"}

\* the term ends in the global average pooling and, behind it, the projection
EndsPooledProjected(val) ==
  /\ Len(val) >= 3
  /\ val[Len(val) - 1] = Tok("avg_pool", "avg_pool", 0, 0)
  /\ val[Len(val)] = Tok("linear", "fc", 0, 0)

\* C11 (as claimed): a pass through the extractor that returns has applied
\* exactly conv, norm, conv, norm, pool, dropout, ResidualBlock, SE, conv, norm,
\* pool, dropout, DepthwiseSeparable, norm, ResidualBlock, SE, pool, dropout,
\* SelfAttention, each normalization directly behind its convolution, then
\* the global average pooling and the projection.
C11_StagesAsClaimed ==
  (RanExtractor /\ Ok(call.features))
    => /\ call.stages = ClaimedStages
       /\ EndsPooledProjected(call.features.val)

\* C11 (amended): the extractor is built as, and a pass that returns has
\* applied, the claimed stages in the claimed order with one rectifier between
\* each of the four convolutions and its normalization and no other stage
\* added, omitted or reordered, then the global average pooling and the
\* projection to hidden_dim; a pass that raises has applied a prefix of them.
C11_StagesWithRectifiers ==
  /\ net.kind \in {"EnhancedFeatureExtractor", "FasterKANvolver"}
       => /\ [i \in 1..Len(net.conv.sub.initial_layers) |->
                net.conv.sub.initial_layers[i].op] = RectifiedStages
          /\ net.conv.sub.fc.op = "Linear"
          /\ net.conv.sub.fc.cout = net.conv.cout
  /\ RanExtractor
       => /\ IsPrefix(call.stages, RectifiedStages)
          /\ Ok(call.features)
               => /\ call.stages = RectifiedStages
                  /\ call.features.val[1] = Tok("input", "", 0, 0)
                  /\ call.features.val[2] = Tok("conv", "initial_layers.0", 0, 0)
                  /\ call.features.val[3] = Tok("relu", "initial_layers.1", 0, 0)
                  /\ call.features.val[4][1] \in {"bn.batch", "bn.running"}
                  /\ call.features.val[4][2] = "initial_layers.2"
                  /\ EndsPooledProjected(call.features.val)
                  /\ Last(call.features.shape) = net.conv.cout

\* C11 witness: a pass through the hybrid network whose extractor returned
\* after all 23 stages, the second of them a rectifier
C11_Witness ==
  /\ call.op = "FasterKANvolver.forward"
  /\ Ok(call.features)
  /\ Len(call.stages) = 23
  /\ call.stages[2] = "ReLU"
  /\ call.stages[23] = "SelfAttention"
  /\ EndsPooledProjected(call.features.val)

\* the network in use is the one its constructor builds when configured with
\* spline_weight_init_scale = s
BuiltWith(s) ==
  \/ /\ net.kind = "FasterKAN"
     /\ \E g \in NumGrids :
          net.layers = FasterKAN_init(net.layers_hidden, g, StackKwargsWith(s))
  \/ /\ net.kind = "FasterKANvolver"
     /\ net.layers = FasterKANvolver_init(net.layers_hidden, net.conv.cin, net.conv.cout,
                                          8, VolverKwargsWith(s)).faster_kan_layers

\* C12: the spline_weight_init_scale a FasterKAN or FasterKANvolver is
\* configured with is the init scale every layer's SplineLinear is constructed
\* with, over fan-in input_dim * num_grids, and the basis-function
\* hyperparameters reach every layer's basis function unchanged and alike.
C12_ScaleReachesProjection ==
  \A s \in InitScales :
    BuiltWith(s) =>
      \A i \in 1..Len(net.layers) :
        /\ net.layers[i].spline_linear.in_features
             = InputDim(net.layers[i]) * net.layers[i].rbf.num_grids
        /\ net.layers[i].rbf.kwargs = net.layers[1].rbf.kwargs
        /\ net.layers[i].rbf.kwargs.grid_min = -12
        /\ net.layers[i].rbf.kwargs.grid_max = 2
        /\ net.layers[i].rbf.kwargs.exponent = 2
        /\ net.layers[i].rbf.kwargs.inv_denominator = 5
        /\ "init_scale" \in DOMAIN net.layers[i].spline_linear
        /\ net.layers[i].spline_linear.init_scale = s

====
